---- MODULE Spec2Model ----
(***************************************************************************)
(* The EVM project build of solx (solx/src/build_evm/mod.rs): the result   *)
(* map of contracts, the auxiliary message list, linking, and the four     *)
(* emission modes; the lowering of a Yul expression to LLVM IR             *)
(* (solx/src/yul/parser/statement/expression/mod.rs); and the outcome of a *)
(* run of the solx executable (solx/tests/cli).                            *)
(*                                                                         *)
(* Strings are sequences of one-character strings, so that splitting on    *)
(* ':' and the suffix test of the combined-JSON matching are computed on   *)
(* characters, as the code computes them.  Byte sequences are sequences of *)
(* tokens: "ELF" is the object header of an unlinked object, "@L" and "@M" *)
(* are library placeholders, every other token is a byte of code.          *)
(***************************************************************************)
EXTENDS Integers, Sequences, FiniteSets, TLC

\* Number of auxiliary messages a build is constructed with, at most.
MaxMessages == 2

\* Number of link() calls on one build, at most (each failed link appends a message).
MaxLinks == 1

\* Number of statements and expressions lowered in one function body, at most.
MaxStatements == 3

(***************************************************************************)
(* Strings                                                                 *)
(***************************************************************************)

\* The byte value of a character: String (BTreeMap key) order is byte order.
Ord(c) ==
    CASE c = "." -> 46
      [] c = "/" -> 47
      [] c = ":" -> 58
      [] c = "A" -> 65
      [] c = "B" -> 66
      [] c = "a" -> 97
      [] c = "b" -> 98
      [] c = "c" -> 99
      [] c = "r" -> 114
      [] c = "w" -> 119
      [] c = "x" -> 120
      [] OTHER -> 127

RECURSIVE LexLess(_, _)
\* s < t in the order of String
LexLess(s, t) ==
    IF t = <<>> THEN FALSE
    ELSE IF s = <<>> THEN TRUE
    ELSE IF Ord(Head(s)) # Ord(Head(t)) THEN Ord(Head(s)) < Ord(Head(t))
    ELSE LexLess(Tail(s), Tail(t))

RECURSIVE SortedKeys(_)
\* The keys of a BTreeMap in iteration order.
SortedKeys(S) ==
    IF S = {} THEN <<>>
    ELSE LET m == CHOOSE x \in S : \A y \in S \ {x} : LexLess(x, y)
         IN  <<m>> \o SortedKeys(S \ {m})

\* str::ends_with
EndsWith(s, suffix) ==
    /\ Len(suffix) <= Len(s)
    /\ SubSeq(s, Len(s) - Len(suffix) + 1, Len(s)) = suffix

RECURSIVE Split(_, _)
\* str::split(sep): the pieces between the separators, in order.
Split(s, sep) ==
    IF \A i \in 1..Len(s) : s[i] # sep THEN <<s>>
    ELSE LET i == CHOOSE j \in 1..Len(s) :
                      s[j] = sep /\ \A k \in 1..(j - 1) : s[k] # sep
         IN  <<SubSeq(s, 1, i - 1)>> \o Split(SubSeq(s, i + 1, Len(s)), sep)

RECURSIVE SelectSeqBy(_, _)
\* The elements of a sequence whose severity is in the given set, in order.
SelectSeqBy(seq, severities) ==
    IF seq = <<>> THEN <<>>
    ELSE (IF Head(seq).severity \in severities THEN <<Head(seq)>> ELSE <<>>)
         \o SelectSeqBy(Tail(seq), severities)

(***************************************************************************)
(* Diagnostic messages (solx_solc::StandardJsonOutputError)                *)
(***************************************************************************)

Severities == {"error", "warning", "info"}

Digits == <<"1", "2", "3", "4", "5", "6">>

\* StandardJsonOutputError::new_error(message, None, None)
new_error(message) == [severity |-> "error", message |-> message]

\* The i-th auxiliary message a build is constructed with.
Message(severity, i) == [severity |-> severity, message |-> <<"m", Digits[i]>>]

\* The message lists a build may be constructed with.
MessageLists ==
    UNION { { [i \in 1..n |-> Message(sev[i], i)] : sev \in [1..n -> Severities] }
            : n \in 0..MaxMessages }

(***************************************************************************)
(* Contracts (build_evm::contract::Contract)                               *)
(***************************************************************************)

\* Option<String>: <<>> is None, <<s>> is Some(s).
ContractName(path, name) ==
    [path |-> path,
     name |-> name,
     full_path |-> path \o <<":">> \o (IF name = <<>> THEN path ELSE name[1])]

NewContract(name, deploy_build, runtime_build, object_format) ==
    [name |-> name,
     deploy_identifier |-> name.full_path,
     runtime_identifier |-> name.full_path \o <<".", "r">>,
     deploy_build |-> deploy_build,
     runtime_build |-> runtime_build,
     object_format |-> object_format]

\* The contracts a build may hold, one per full path: two contracts of one
\* path, a contract in a subdirectory and a contract without a name.  The
\* second is final code that happens to start with the bytes of the object
\* header (a PUSH32 of them): its format, not its bytes, says it is linked.
ContractPool ==
    { NewContract(ContractName(<<"a">>, << <<"A">> >>),
                  <<"ELF", "60", "@L">>, <<"ELF", "@L", "00">>, "ELF"),
      NewContract(ContractName(<<"a">>, << <<"B">> >>),
                  <<"ELF", "60", "01">>, <<"00">>, "Raw"),
      NewContract(ContractName(<<"c", "/", "a">>, << <<"A">> >>),
                  <<"ELF", "60", "02">>, <<"ELF", "fe">>, "ELF"),
      NewContract(ContractName(<<"b">>, <<>>),
                  <<"ELF", "@L", "@M">>, <<"ELF", "5b">>, "ELF") }

FullPaths == { c.name.full_path : c \in ContractPool }

ContractAt(full_path) == CHOOSE c \in ContractPool : c.name.full_path = full_path

\* The Contract of an entry of the result map that holds none.
NoContract == NewContract(ContractName(<<>>, <<>>), <<>>, <<>>, "Raw")

\* The error of an entry of the result map that holds none.
NoError == [severity |-> "info", message |-> <<>>]

\* Result<Contract, StandardJsonOutputError>
Ok(contract) == [ok |-> TRUE, contract |-> contract, error |-> NoError]

Err(error) == [ok |-> FALSE, contract |-> NoContract, error |-> error]

\* The terminal diagnostic of the contract that failed lowering.
LoweringError(full_path) == new_error(<<"l", "o", "w">> \o full_path)

\* The result maps a build may be constructed with.
ResultMaps ==
    UNION { [keys -> BOOLEAN] : keys \in SUBSET FullPaths }

ResultsOf(okmap) ==
    [k \in DOMAIN okmap |->
        IF okmap[k] THEN Ok(ContractAt(k)) ELSE Err(LoweringError(k))]

(***************************************************************************)
(* The JSON documents (solx_solc::CombinedJson, solx_solc::StandardJsonOutput) *)
(***************************************************************************)

\* An entry of either document: what the upstream compiler put there (abi)
\* and the bytecode a contract of the build wrote into it.
JsonContract(abi, bin, bin_runtime) == [abi |-> abi, bin |-> bin, bin_runtime |-> bin_runtime]

\* CombinedJsonContract::default(), StandardJsonOutputContract::default()
DefaultJsonContract == JsonContract(<<>>, <<>>, <<>>)

\* An entry as the upstream compiler leaves it.
SolcJsonContract == JsonContract(<<"abi">>, <<>>, <<>>)

\* CombinedJson.contracts of a document with the given keys
CombinedJsonOf(keys) == [k \in keys |-> SolcJsonContract]

\* The combined JSON document before any emission call has been given one.
NoCombinedJson == CombinedJsonOf({})

\* StandardJsonOutput: contracts by path and name, errors, version
StandardJsonOf(contracts) ==
    [contracts |-> contracts, errors |-> <<>>, version |-> <<>>, long_version |-> <<>>]

\* The standard JSON output before any emission call has been given one.
NoStandardJson == StandardJsonOf([p \in {} |-> [n \in {} |-> SolcJsonContract]])

(***************************************************************************)
(* State                                                                   *)
(***************************************************************************)

VARIABLES
    results,    \* Build::results
    messages,   \* Build::messages
    pc,         \* "live" | "consumed" | "exited" | "panicked"
    op,         \* the last operation called on the build
    ret,        \* what the last errors() or take_warnings() returned
    pre,        \* results and messages as they were when the last operation was called
    links,      \* number of link() calls so far
    symbols,    \* the linker symbols of the last link() call
    out,        \* what the emission call printed and wrote, in order
    combined_json,  \* the combined JSON document of write_to_combined_json
    standard_json,  \* the standard JSON output of write_to_standard_json
    context,    \* EVMContext: the stack pointers of the current function, the IR built
    lowered,    \* the last statement or expression lowered, and what lowering returned
    lowerings,  \* number of statements and expressions lowered so far
    arguments,  \* the command line of a run of solx
    exit_code,  \* <<>> while the run has not ended, then <<code>>
    stdout,     \* what the run wrote to the standard output
    stderr      \* what the run wrote to the standard error

build_vars == <<results, messages, pc, op, ret, pre, links, symbols, out,
                combined_json, standard_json>>

yul_vars == <<context, lowered, lowerings>>

cli_vars == <<arguments, exit_code, stdout, stderr>>

vars == <<build_vars, yul_vars, cli_vars>>

\* The build and the documents as an operation finds them; args is what an
\* emission call is given besides them.
Snapshot ==
    [results |-> results, messages |-> messages,
     combined_json |-> combined_json, standard_json |-> standard_json,
     args |-> <<>>]

\* The IR builder inside a function that has declared nothing yet.
EmptyContext == [stack |-> [name \in {} |-> 0], ir |-> <<>>]

\* Nothing has been lowered.
NotLowered ==
    [expression |-> [kind |-> "none"],
     before |-> EmptyContext,
     result |-> [ok |-> TRUE, value |-> <<>>, error |-> <<>>]]

\* No function body is being lowered.
YulIdle ==
    /\ context = EmptyContext
    /\ lowered = NotLowered
    /\ lowerings = 0

\* No command line.
NoArguments ==
    [mode |-> "cli", language |-> "solidity", asm |-> FALSE, bin |-> FALSE,
     base_path |-> FALSE, input_valid |-> TRUE]

\* No run of the executable.
CliIdle ==
    /\ arguments = NoArguments
    /\ exit_code = <<>>
    /\ stdout = <<>>
    /\ stderr = <<>>

\* Build::new
Init ==
    /\ YulIdle
    /\ CliIdle
    /\ \E okmap \in ResultMaps : results = ResultsOf(okmap)
    /\ messages \in MessageLists
    /\ pc = "live"
    /\ op = "new"
    /\ ret = <<>>
    /\ links = 0
    /\ symbols = [x \in {} |-> "a1"]
    /\ out = <<>>
    /\ combined_json = NoCombinedJson
    /\ standard_json = NoStandardJson
    /\ pre = [results |-> results, messages |-> messages,
              combined_json |-> NoCombinedJson, standard_json |-> NoStandardJson,
              args |-> <<>>]

(***************************************************************************)
(* CollectableError for Build                                              *)
(***************************************************************************)

RECURSIVE TerminalErrors(_, _)
\* results.values().filter_map(|build| build.as_ref().err())
TerminalErrors(keys, map) ==
    IF keys = <<>> THEN <<>>
    ELSE (IF map[Head(keys)].ok THEN <<>> ELSE <<map[Head(keys)].error>>)
         \o TerminalErrors(Tail(keys), map)

\* errors that forgets the contracts that failed
errors_of_messages_only(map, msgs) == SelectSeqBy(msgs, {"error"})

\* errors that forgets the messages of the build
errors_of_results_only(map, msgs) == TerminalErrors(SortedKeys(DOMAIN map), map)

\* Build::errors
errors(map, msgs) ==
    TerminalErrors(SortedKeys(DOMAIN map), map) \o SelectSeqBy(msgs, {"error"})

\* Build::take_warnings: the warnings returned
take_warnings(msgs) == SelectSeqBy(msgs, {"warning"})

\* take_warnings that retains the errors alone
retain_only_errors(msgs) == SelectSeqBy(msgs, {"error"})

\* Build::take_warnings: the messages retained
retain_not_warning(msgs) == SelectSeqBy(msgs, Severities \ {"warning"})

Errors ==
    /\ pc = "live"
    /\ op' = "errors"
    /\ ret' = errors(results, messages)
    /\ pre' = Snapshot
    /\ UNCHANGED <<results, messages, pc, links, symbols, out, combined_json, standard_json>>
    /\ UNCHANGED <<yul_vars, cli_vars>>

TakeWarnings ==
    /\ pc = "live"
    /\ op' = "take_warnings"
    /\ ret' = take_warnings(messages)
    /\ messages' = retain_not_warning(messages)
    /\ pre' = Snapshot
    /\ UNCHANGED <<results, pc, links, symbols, out, combined_json, standard_json>>
    /\ UNCHANGED <<yul_vars, cli_vars>>

(***************************************************************************)
(* Linking                                                                 *)
(***************************************************************************)

Placeholders == {"@L", "@M"}

\* The linker symbol tables link() may be called with: placeholder -> address.
SymbolTables ==
    { [x \in {} |-> "a1"],
      [x \in {"@L"} |-> "a1"],
      [x \in {"@L", "@M"} |-> IF x = "@L" THEN "a1" ELSE "a2"] }

\* The placeholders a byte sequence refers to.
References(build) == { build[i] : i \in 1..Len(build) } \cap Placeholders

\* The bytes of an object with its header dropped and its placeholders resolved.
Resolve(build, linker_symbols) ==
    LET body == IF build # <<>> /\ Head(build) = "ELF" THEN Tail(build) ELSE build
    IN  [i \in 1..Len(body) |->
            IF body[i] \in DOMAIN linker_symbols THEN linker_symbols[body[i]]
            ELSE body[i]]

\* era_compiler_llvm_context::evm_link: both objects linked, or the error.
evm_link(deploy, runtime, linker_symbols) ==
    LET unresolved == (References(deploy.build) \cup References(runtime.build))
                          \ DOMAIN linker_symbols
    IN  IF unresolved = {}
        THEN [ok |-> TRUE,
              deploy |-> Resolve(deploy.build, linker_symbols),
              runtime |-> Resolve(runtime.build, linker_symbols),
              object_format |-> "Raw",
              error |-> <<>>]
        ELSE [ok |-> FALSE,
              deploy |-> <<>>,
              runtime |-> <<>>,
              object_format |-> "ELF",
              error |-> <<"l", "d">> \o deploy.identifier]

\* link that links every contract, whatever its format
IsELF_always(contract) == TRUE

\* link: which entries of the result map the loop links (panics on an error entry)
IsELF(contract) == contract.object_format = "ELF"

\* link that passes over the entries that hold an error
PanicsOnError_never(result) == FALSE

\* link: what an entry that holds an error does to the loop
PanicsOnError(result) == ~result.ok

\* link that stores the format and forgets the bytes
StoreLinked_format_only(contract, linked) ==
    [contract EXCEPT !.object_format = linked.object_format]

\* link: the three assignments after a successful evm_link
StoreLinked(contract, linked) ==
    [contract EXCEPT !.deploy_build = linked.deploy,
                     !.runtime_build = linked.runtime,
                     !.object_format = linked.object_format]

\* link that reports a failed link as a warning
PushLinkError_as_warning(msgs, error) ==
    Append(msgs, [severity |-> "warning", message |-> error])

\* link: the messages after a failed evm_link
PushLinkError(msgs, error) == Append(msgs, new_error(error))

RECURSIVE LinkLoop_stops(_, _, _, _)
\* link whose loop ends at the first link that fails
LinkLoop_stops(keys, map, msgs, linker_symbols) ==
    IF keys = <<>> THEN [results |-> map, messages |-> msgs, panicked |-> FALSE]
    ELSE
        LET result == map[Head(keys)]
            contract == result.contract
            linked == evm_link(
                [identifier |-> contract.deploy_identifier, build |-> contract.deploy_build],
                [identifier |-> contract.runtime_identifier, build |-> contract.runtime_build],
                linker_symbols)
        IN  IF PanicsOnError(result)
            THEN [results |-> map, messages |-> msgs, panicked |-> TRUE]
            ELSE IF ~IsELF(contract)
            THEN LinkLoop_stops(Tail(keys), map, msgs, linker_symbols)
            ELSE IF ~linked.ok
            THEN [results |-> map, messages |-> PushLinkError(msgs, linked.error),
                  panicked |-> FALSE]
            ELSE LinkLoop_stops(Tail(keys),
                          [map EXCEPT ![Head(keys)] = Ok(StoreLinked(contract, linked))],
                          msgs, linker_symbols)

RECURSIVE LinkLoop(_, _, _, _)
\* link: the loop over results.values_mut(), from the entry at Head(keys) on.
LinkLoop(keys, map, msgs, linker_symbols) ==
    IF keys = <<>> THEN [results |-> map, messages |-> msgs, panicked |-> FALSE]
    ELSE
        LET result == map[Head(keys)]
            contract == result.contract
            linked == evm_link(
                [identifier |-> contract.deploy_identifier, build |-> contract.deploy_build],
                [identifier |-> contract.runtime_identifier, build |-> contract.runtime_build],
                linker_symbols)
        IN  IF PanicsOnError(result)
            THEN [results |-> map, messages |-> msgs, panicked |-> TRUE]
            ELSE IF ~IsELF(contract)
            THEN LinkLoop(Tail(keys), map, msgs, linker_symbols)
            ELSE IF ~linked.ok
            THEN LinkLoop(Tail(keys), map, PushLinkError(msgs, linked.error), linker_symbols)
            ELSE LinkLoop(Tail(keys),
                          [map EXCEPT ![Head(keys)] = Ok(StoreLinked(contract, linked))],
                          msgs, linker_symbols)

\* link that drops the contracts left unlinked from the result map
link_retaining_linked(map, msgs, linker_symbols) ==
    LET linked == LinkLoop(SortedKeys(DOMAIN map), map, msgs, linker_symbols)
        kept == { k \in DOMAIN map :
                    linked.results[k].ok =>
                        linked.results[k].contract.object_format = "Raw" }
    IN  [linked EXCEPT !.results = [k \in kept |-> linked.results[k]]]

\* Build::link
link(map, msgs, linker_symbols) ==
    LinkLoop(SortedKeys(DOMAIN map), map, msgs, linker_symbols)

Link ==
    /\ pc = "live"
    /\ links < MaxLinks
    /\ \E linker_symbols \in SymbolTables :
          \E linked \in { link(results, messages, linker_symbols) } :
              /\ results' = linked.results
              /\ messages' = linked.messages
              /\ pc' = IF linked.panicked THEN "panicked" ELSE "live"
              /\ symbols' = linker_symbols
    /\ op' = "link"
    /\ ret' = <<>>
    /\ pre' = Snapshot
    /\ links' = links + 1
    /\ UNCHANGED <<out, combined_json, standard_json>>
    /\ UNCHANGED <<yul_vars, cli_vars>>

(***************************************************************************)
(* Emission: what the emitters print and write is recorded in `out`, one   *)
(* event per line printed, directory created or contract written.          *)
(***************************************************************************)

Event(kind, who, data) == [kind |-> kind, who |-> who, data |-> data]

RECURSIVE PrintAll(_, _)
\* One line on stderr for each message, in order.
PrintAll(kind, msgs) ==
    IF msgs = <<>> THEN <<>>
    ELSE <<Event(kind, <<>>, Head(msgs).message)>> \o PrintAll(kind, Tail(msgs))

\* CollectableError::take_and_write_warnings: the lines printed
take_and_write_warnings(msgs) == PrintAll("warning", take_warnings(msgs))

\* CollectableError::exit_on_error: the lines printed and the exit, if any error
exit_on_error(map, msgs) ==
    LET errs == errors(map, msgs)
    IN  IF errs = <<>> THEN <<>>
        ELSE PrintAll("error", errs) \o <<Event("exit", <<>>, <<"1">>)>>

\* The sections requested of write_to_terminal and write_to_directory.
Sections(output_metadata, output_assembly, output_binary) ==
    (IF output_metadata THEN <<"metadata">> ELSE <<>>)
    \o (IF output_assembly THEN <<"asm">> ELSE <<>>)
    \o (IF output_binary THEN <<"bin">> ELSE <<>>)

\* Contract::write_to_terminal: the stanza of one contract
contract_write_to_terminal(path, sections) == <<Event("stanza", path, sections)>>

RECURSIVE TerminalLoop(_, _)
\* write_to_terminal: the loop over results.into_iter()
TerminalLoop(keys, sections) ==
    IF keys = <<>> THEN <<>>
    ELSE contract_write_to_terminal(Head(keys), sections)
         \o TerminalLoop(Tail(keys), sections)

\* write_to_terminal that prints the notice and goes on to the contracts
terminal_after_warnings_no_return(map, msgs, sections) ==
    LET exit == exit_on_error(map, msgs)
    IN  IF exit # <<>>
        THEN [out |-> exit, pc |-> "exited"]
        ELSE [out |-> (IF sections = <<>> THEN <<Event("notice", <<>>, <<>>)>> ELSE <<>>)
                      \o TerminalLoop(SortedKeys(DOMAIN map), sections),
              pc |-> "consumed"]

\* write_to_terminal after the warnings: the error check, then the output
terminal_after_warnings(map, msgs, sections) ==
    LET exit == exit_on_error(map, msgs)
    IN  IF exit # <<>>
        THEN [out |-> exit, pc |-> "exited"]
        ELSE IF sections = <<>>
        THEN [out |-> <<Event("notice", <<>>, <<>>)>>, pc |-> "consumed"]
        ELSE [out |-> TerminalLoop(SortedKeys(DOMAIN map), sections), pc |-> "consumed"]

\* write_to_terminal that checks the errors before it drains the warnings
write_to_terminal_exit_first(map, msgs, sections) ==
    LET exit == exit_on_error(map, msgs)
        after == terminal_after_warnings(map, retain_not_warning(msgs), sections)
    IN  IF exit # <<>>
        THEN [out |-> exit, pc |-> "exited", messages |-> msgs]
        ELSE [out |-> take_and_write_warnings(msgs) \o after.out,
              pc |-> after.pc,
              messages |-> retain_not_warning(msgs)]

\* Build::write_to_terminal
write_to_terminal(map, msgs, sections) ==
    LET after == terminal_after_warnings(map, retain_not_warning(msgs), sections)
    IN  [out |-> take_and_write_warnings(msgs) \o after.out,
         pc |-> after.pc,
         messages |-> retain_not_warning(msgs)]

\* The flag combinations tried: metadata, assembly, binary.
FlagSets == { <<FALSE, FALSE, FALSE>>, <<FALSE, FALSE, TRUE>>, <<TRUE, TRUE, TRUE>> }

WriteToTerminal ==
    /\ pc = "live"
    /\ \E flags \in FlagSets :
          \E written \in { write_to_terminal(results, messages,
                                              Sections(flags[1], flags[2], flags[3])) } :
              /\ out' = written.out
              /\ pc' = written.pc
              /\ messages' = written.messages
              /\ pre' = [Snapshot EXCEPT
                            !.args = Sections(flags[1], flags[2], flags[3])]
    /\ op' = "write_to_terminal"
    /\ ret' = <<>>
    /\ UNCHANGED <<results, links, symbols, combined_json, standard_json>>
    /\ UNCHANGED <<yul_vars, cli_vars>>

\* No contract: the write of no contract fails.
NoPath == <<>>

RECURSIVE DirectoryLoop_continues(_, _)
\* write_to_directory that goes on to the next contract when a write fails
DirectoryLoop_continues(keys, failing) ==
    IF keys = <<>> THEN [out |-> <<Event("success", <<>>, <<>>)>>, pc |-> "consumed"]
    ELSE LET rest == DirectoryLoop_continues(Tail(keys), failing)
         IN  IF Head(keys) = failing THEN rest
             ELSE [out |-> <<Event("file", Head(keys), <<>>)>> \o rest.out, pc |-> rest.pc]

RECURSIVE DirectoryLoop(_, _)
\* write_to_directory: the loop over results.into_values(); the write of
\* contract `failing` returns an error, which ends the call.
DirectoryLoop(keys, failing) ==
    IF keys = <<>> THEN [out |-> <<Event("success", <<>>, <<>>)>>, pc |-> "consumed"]
    ELSE IF Head(keys) = failing
    THEN [out |-> <<>>, pc |-> "failed"]
    ELSE LET rest == DirectoryLoop(Tail(keys), failing)
         IN  [out |-> <<Event("file", Head(keys), <<>>)>> \o rest.out, pc |-> rest.pc]

\* write_to_directory after the warnings: the error check, the directory, the files
directory_after_warnings(map, msgs, create_dir_all_ok, failing) ==
    LET exit == exit_on_error(map, msgs)
        loop == DirectoryLoop(SortedKeys(DOMAIN map), failing)
    IN  IF exit # <<>>
        THEN [out |-> exit, pc |-> "exited"]
        ELSE IF ~create_dir_all_ok
        THEN [out |-> <<>>, pc |-> "failed"]
        ELSE [out |-> <<Event("mkdir", <<>>, <<>>)>> \o loop.out, pc |-> loop.pc]

\* Build::write_to_directory
write_to_directory(map, msgs, create_dir_all_ok, failing) ==
    LET after == directory_after_warnings(map, retain_not_warning(msgs),
                                          create_dir_all_ok, failing)
    IN  [out |-> take_and_write_warnings(msgs) \o after.out,
         pc |-> after.pc,
         messages |-> retain_not_warning(msgs)]

WriteToDirectory ==
    /\ pc = "live"
    /\ \E create_dir_all_ok \in BOOLEAN :
       \E failing \in (IF create_dir_all_ok THEN DOMAIN results ELSE {}) \cup {NoPath} :
          \E written \in { write_to_directory(results, messages,
                                               create_dir_all_ok, failing) } :
              /\ out' = written.out
              /\ pc' = written.pc
              /\ messages' = written.messages
              /\ pre' = [Snapshot EXCEPT
                            !.args = [create_dir_all_ok |-> create_dir_all_ok,
                                      failing |-> failing]]
    /\ op' = "write_to_directory"
    /\ ret' = <<>>
    /\ UNCHANGED <<results, links, symbols, combined_json, standard_json>>
    /\ UNCHANGED <<yul_vars, cli_vars>>

(***************************************************************************)
(* Standard JSON                                                           *)
(***************************************************************************)

\* A map with one more entry (BTreeMap::insert).
Insert(map, key, value) ==
    [k \in DOMAIN map \cup {key} |-> IF k = key THEN value ELSE map[k]]

\* Contract::write_to_standard_json, Contract::write_to_combined_json
contract_write_to_json(contract, entry) ==
    [entry EXCEPT !.bin = contract.deploy_build, !.bin_runtime = contract.runtime_build]

\* write_to_standard_json: the inner key of a contract
InnerKey(name) == IF name.name = <<>> THEN name.path ELSE name.name[1]

\* write_to_standard_json that replaces the contracts of a path by the new one
StandardJsonStore_replaces(contracts, build) ==
    LET path == build.name.path
        inner == InnerKey(build.name)
    IN  IF path \in DOMAIN contracts /\ inner \in DOMAIN contracts[path]
        THEN [contracts EXCEPT ![path][inner] = contract_write_to_json(build, @)]
        ELSE Insert(contracts, path,
                    [n \in {inner} |-> contract_write_to_json(build, DefaultJsonContract)])

\* write_to_standard_json: one contract written into the document's contracts
StandardJsonStore(contracts, build) ==
    LET path == build.name.path
        inner == InnerKey(build.name)
    IN  IF path \in DOMAIN contracts /\ inner \in DOMAIN contracts[path]
        THEN [contracts EXCEPT ![path][inner] = contract_write_to_json(build, @)]
        ELSE LET existing == IF path \in DOMAIN contracts THEN contracts[path]
                             ELSE [n \in {} |-> DefaultJsonContract]
             IN  Insert(contracts, path,
                        Insert(existing, inner,
                               contract_write_to_json(build, DefaultJsonContract)))

RECURSIVE StandardJsonLoop(_, _, _)
\* write_to_standard_json: the loop over results.into_values()
StandardJsonLoop(keys, map, acc) ==
    IF keys = <<>> THEN acc
    ELSE LET result == map[Head(keys)]
             build == result.contract
         IN  IF ~result.ok
             THEN StandardJsonLoop(Tail(keys), map,
                      [acc EXCEPT !.errors = Append(@, result.error)])
             ELSE StandardJsonLoop(Tail(keys), map,
                      [contracts |-> StandardJsonStore(acc.contracts, build),
                       errors |-> acc.errors,
                       out |-> Append(acc.out,
                                  Event("json", build.name.full_path,
                                        build.name.path \o <<"|">> \o InnerKey(build.name)))])

\* write_to_standard_json that overwrites the document's errors
ExtendErrors_overwrite(document_errors, errs) == errs

\* write_to_standard_json: what becomes of the errors collected in the loop
ExtendErrors(document_errors, errs) == document_errors \o errs

\* Build::write_to_standard_json
write_to_standard_json(map, document, solc_version) ==
    LET loop == StandardJsonLoop(SortedKeys(DOMAIN map), map,
                    [contracts |-> document.contracts, errors |-> <<>>, out |-> <<>>])
    IN  [standard_json |->
            [contracts |-> loop.contracts,
             errors |-> ExtendErrors(document.errors, loop.errors),
             version |-> IF solc_version # <<>> THEN solc_version ELSE document.version,
             long_version |-> IF solc_version # <<>> THEN solc_version
                              ELSE document.long_version],
         out |-> loop.out,
         pc |-> "consumed"]

\* An error the upstream compiler left in the document.
SolcError == [severity |-> "warning", message |-> <<"s">>]

\* The documents write_to_standard_json may be given.
StandardJsonPool ==
    { NoStandardJson,
      [StandardJsonOf([p \in {<<"a">>} |-> [n \in {<<"A">>, <<"C">>} |-> SolcJsonContract]])
          EXCEPT !.errors = <<SolcError>>],
      StandardJsonOf([p \in {<<"a">>, <<"b">>} |-> [n \in {} |-> SolcJsonContract]]) }

WriteToStandardJson ==
    /\ pc = "live"
    /\ \E document \in StandardJsonPool, solc_version \in {<<>>, <<"v">>} :
          \E written \in { write_to_standard_json(results, document, solc_version) } :
              /\ standard_json' = written.standard_json
              /\ out' = written.out
              /\ pc' = written.pc
              /\ pre' = [Snapshot EXCEPT !.standard_json = document]
    /\ op' = "write_to_standard_json"
    /\ ret' = <<>>
    /\ UNCHANGED <<results, messages, links, symbols, combined_json>>
    /\ UNCHANGED <<yul_vars, cli_vars>>

(***************************************************************************)
(* Combined JSON                                                           *)
(***************************************************************************)

\* The components of the current directory: /w.
Cwd == << <<"w">> >>

\* The files that exist, by canonical path.
ExistingFiles ==
    { <<"/", "w", "/", "a">>, <<"/", "w", "/", "b">>, <<"/", "w", "/", "c", "/", "a">>,
      <<"/", "a">> }

RECURSIVE Components(_, _)
\* The components of a path on top of those of its base: "" and "." name the
\* directory itself, ".." names its parent.
Components(pieces, base) ==
    IF pieces = <<>> THEN base
    ELSE IF Head(pieces) \in {<<>>, <<".">>} THEN Components(Tail(pieces), base)
    ELSE IF Head(pieces) = <<".", ".">>
    THEN Components(Tail(pieces),
                    IF base = <<>> THEN base ELSE SubSeq(base, 1, Len(base) - 1))
    ELSE Components(Tail(pieces), Append(base, Head(pieces)))

RECURSIVE JoinPath(_)
\* The absolute path of the given components.
JoinPath(components) ==
    IF components = <<>> THEN <<>>
    ELSE <<"/">> \o Head(components) \o JoinPath(Tail(components))

\* normpath::PathExt::normalize: the canonical absolute path of an existing
\* file (no symbolic links are modelled), an error for a path that names none.
normalize(path) ==
    LET components == Components(Split(path, "/"),
                                 IF path # <<>> /\ Head(path) = "/" THEN <<>> ELSE Cwd)
        canonical == IF components = <<>> THEN <<"/">> ELSE JoinPath(components)
    IN  IF path # <<>> /\ canonical \in ExistingFiles
        THEN [ok |-> TRUE, value |-> canonical]
        ELSE [ok |-> FALSE, value |-> <<>>]

\* normalize_full_path: the name after the path, the second piece of split(':')
NamePart(pieces) == pieces[2]

\* Build::normalize_full_path: ok is FALSE where the code panics
normalize_full_path(path) ==
    LET pieces == Split(path, ":")
        normalized == normalize(pieces[1])
    IN  IF Len(pieces) < 2 \/ ~normalized.ok
        THEN [ok |-> FALSE, value |-> <<>>]
        ELSE [ok |-> TRUE, value |-> normalized.value \o <<":">> \o NamePart(pieces)]

\* write_to_combined_json that matches equal paths only
SuffixMatch_exact(full_path, json_path) == full_path = json_path

\* write_to_combined_json: the test of the closure given to find_map
SuffixMatch(full_path, json_path) == EndsWith(full_path, json_path)

RECURSIVE FindMap(_, _)
\* write_to_combined_json: find_map over the document's keys in order
FindMap(json_paths, full_path) ==
    IF json_paths = <<>> THEN [panicked |-> FALSE, found |-> FALSE, key |-> <<>>]
    ELSE LET mine == normalize_full_path(full_path)
             theirs == normalize_full_path(Head(json_paths))
         IN  IF ~mine.ok \/ ~theirs.ok
             THEN [panicked |-> TRUE, found |-> FALSE, key |-> <<>>]
             ELSE IF SuffixMatch(mine.value, theirs.value)
             THEN [panicked |-> FALSE, found |-> TRUE, key |-> Head(json_paths)]
             ELSE FindMap(Tail(json_paths), full_path)

\* write_to_combined_json: the key of the entry a contract is written into
EntryKey(found, full_path) == IF found.found THEN found.key ELSE full_path

RECURSIVE CombinedJsonLoop(_, _, _)
\* write_to_combined_json: the loop over results.into_values()
CombinedJsonLoop(keys, map, acc) ==
    IF keys = <<>> THEN acc
    ELSE LET build == map[Head(keys)].contract
             full_path == build.name.full_path
             found == FindMap(SortedKeys(DOMAIN acc.combined_json), full_path)
             key == EntryKey(found, full_path)
             entry == IF found.found THEN acc.combined_json[key] ELSE DefaultJsonContract
         IN  IF found.panicked
             THEN [acc EXCEPT !.pc = "panicked"]
             ELSE CombinedJsonLoop(Tail(keys), map,
                      [combined_json |-> Insert(acc.combined_json, key,
                                                contract_write_to_json(build, entry)),
                       out |-> Append(acc.out, Event("json", full_path, key)),
                       pc |-> acc.pc])

\* write_to_combined_json after the warnings: the error check, then the loop
combined_json_after_warnings(map, msgs, document) ==
    LET exit == exit_on_error(map, msgs)
    IN  IF exit # <<>>
        THEN [combined_json |-> document, out |-> exit, pc |-> "exited"]
        ELSE CombinedJsonLoop(SortedKeys(DOMAIN map), map,
                 [combined_json |-> document, out |-> <<>>, pc |-> "consumed"])

\* Build::write_to_combined_json
write_to_combined_json(map, msgs, document) ==
    LET after == combined_json_after_warnings(map, retain_not_warning(msgs), document)
    IN  [combined_json |-> after.combined_json,
         out |-> take_and_write_warnings(msgs) \o after.out,
         pc |-> after.pc,
         messages |-> retain_not_warning(msgs)]

\* The key sets of the documents write_to_combined_json may be given.
CombinedJsonKeys ==
    { {},
      { <<"a", ":", "A">> },
      { <<"/", "a", ":", "A">>, <<"a", ":", "A">> },
      { <<".", "/", "a", ":", "A">>, <<"b", ":", "b">> },
      { <<"a", ":", "A", ":", "x">> },
      { <<"x", ":", "A">> },
      { <<"a">> } }

WriteToCombinedJson ==
    /\ pc = "live"
    /\ \E keys \in CombinedJsonKeys :
          \E written \in { write_to_combined_json(results, messages, CombinedJsonOf(keys)) } :
              /\ combined_json' = written.combined_json
              /\ out' = written.out
              /\ pc' = written.pc
              /\ messages' = written.messages
              /\ pre' = [Snapshot EXCEPT !.combined_json = CombinedJsonOf(keys)]
    /\ op' = "write_to_combined_json"
    /\ ret' = <<>>
    /\ UNCHANGED <<results, links, symbols, standard_json>>
    /\ UNCHANGED <<yul_vars, cli_vars>>

Next ==
    \/ Errors
    \/ TakeWarnings
    \/ Link
    \/ WriteToTerminal
    \/ WriteToDirectory
    \/ WriteToStandardJson
    \/ WriteToCombinedJson

Spec == Init /\ [][Next]_vars

(***************************************************************************)
(* Lowering of Yul expressions (Expression::into_llvm)                     *)
(***************************************************************************)

\* Result<Option<Value>>: value is <<>> for None and <<v>> for Some(v); an
\* error is the pieces its message is formatted from (location, text, the
\* name between quotation marks), in order.
OkValue(value) == [ok |-> TRUE, value |-> value, error |-> <<>>]

ErrValue(error) == [ok |-> FALSE, value |-> <<>>, error |-> error]

\* The variable names of the function body.
Names == {"x", "y"}

\* The source locations of the expressions, as Location displays them.
Locations == {"1:1", "2:5"}

Literal(inner, location) == [kind |-> "literal", inner |-> inner, location |-> location]

Identifier(inner, location) == [kind |-> "identifier", inner |-> inner, location |-> location]

FunctionCall(name, location) == [kind |-> "call", inner |-> name, location |-> location]

\* The expressions lowered: a literal, a literal that cannot be lowered, each
\* name at each location, a call that yields a value and one that yields none.
Expressions ==
    { Literal("5", "1:1"), Literal("0x", "1:1") }
    \cup { Identifier(name, location) : name \in Names, location \in Locations }
    \cup { FunctionCall("add", "1:1"), FunctionCall("stop", "1:1") }

\* Function::get_stack_pointer: Option<Pointer>
get_stack_pointer(stack, name) ==
    IF name \in DOMAIN stack THEN <<stack[name]>> ELSE <<>>

\* IContext::build_load: the load appended to the IR and its value; the
\* builder stands inside the current function.
build_load(ctx, pointer, name) ==
    LET load == [instruction |-> "load", pointer |-> pointer, name |-> name]
    IN  [ok |-> TRUE,
         context |-> [ctx EXCEPT !.ir = Append(@, load)],
         value |-> load,
         error |-> <<>>]

\* The number of the next stack slot: one more than the slots allocated.
NextPointer(ctx) ==
    Cardinality({ i \in 1..Len(ctx.ir) : ctx.ir[i].instruction = "alloca" }) + 1

\* Literal::into_llvm: the constant, or the error of a literal that is none.
literal_into_llvm(literal, ctx) ==
    IF literal.inner = "0x" THEN ErrValue(<<"invalid digit">>)
    ELSE OkValue(<<[instruction |-> "const", pointer |-> 0, name |-> literal.inner]>>)

\* FunctionCall::into_llvm: the call appended to the IR, and its value if it has one.
call_into_llvm(call, ctx) ==
    LET built == [instruction |-> "call", pointer |-> 0, name |-> call.inner]
    IN  [context |-> [ctx EXCEPT !.ir = Append(@, built)],
         result |-> OkValue(IF call.inner = "stop" THEN <<>> ELSE <<built>>)]

\* Expression::into_llvm of an identifier that yields the slot and loads nothing
identifier_without_load(identifier, ctx) ==
    LET pointer == get_stack_pointer(ctx.stack, identifier.inner)
    IN  IF pointer = <<>>
        THEN [context |-> ctx,
              result |-> ErrValue(<<identifier.location, "Undeclared variable",
                                    identifier.inner>>)]
        ELSE [context |-> ctx,
              result |-> OkValue(<<[instruction |-> "alloca", pointer |-> pointer[1],
                                    name |-> identifier.inner]>>)]

\* Expression::into_llvm, the Identifier arm
identifier_into_llvm(identifier, ctx) ==
    LET pointer == get_stack_pointer(ctx.stack, identifier.inner)
        loaded == build_load(ctx, pointer[1], identifier.inner)
    IN  IF pointer = <<>>
        THEN [context |-> ctx,
              result |-> ErrValue(<<identifier.location, "Undeclared variable",
                                    identifier.inner>>)]
        ELSE IF ~loaded.ok
        THEN [context |-> ctx, result |-> ErrValue(loaded.error)]
        ELSE [context |-> loaded.context, result |-> OkValue(<<loaded.value>>)]

\* Expression::into_llvm
into_llvm(expression, ctx) ==
    IF expression.kind = "literal"
    THEN LET value == literal_into_llvm(expression, ctx)
         IN  [context |-> ctx,
              result |-> IF value.ok THEN value
                         ELSE ErrValue(<<expression.location, "Invalid literal",
                                         expression.inner>> \o value.error)]
    ELSE IF expression.kind = "identifier"
    THEN identifier_into_llvm(expression, ctx)
    ELSE call_into_llvm(expression, ctx)

\* VariableDeclaration::into_llvm of `let name := 5`: a slot is allocated and
\* bound to the name in the current function, and the constant is stored.
declaration_into_llvm(name, ctx) ==
    LET pointer == NextPointer(ctx)
    IN  [context |->
            [stack |-> [n \in DOMAIN ctx.stack \cup {name} |->
                            IF n = name THEN pointer ELSE ctx.stack[n]],
             ir |-> ctx.ir \o << [instruction |-> "alloca", pointer |-> pointer, name |-> name],
                                 [instruction |-> "store", pointer |-> pointer, name |-> "5"] >>],
         result |-> OkValue(<<>>)]

\* A function body is entered with no variable declared.
InitYul ==
    /\ results = ResultsOf([k \in {} |-> TRUE])
    /\ messages = <<>>
    /\ pc = "live"
    /\ op = "new"
    /\ ret = <<>>
    /\ links = 0
    /\ symbols = [x \in {} |-> "a1"]
    /\ out = <<>>
    /\ combined_json = NoCombinedJson
    /\ standard_json = NoStandardJson
    /\ pre = [results |-> results, messages |-> messages,
              combined_json |-> NoCombinedJson, standard_json |-> NoStandardJson,
              args |-> <<>>]
    /\ YulIdle
    /\ CliIdle

\* The next statement of the body is `let name := 5`.
LowerDeclaration ==
    /\ lowerings < MaxStatements
    /\ lowered.result.ok
    /\ \E name \in Names :
          \E done \in { declaration_into_llvm(name, context) } :
              /\ context' = done.context
              /\ lowered' = [expression |-> [kind |-> "declaration", inner |-> name,
                                             location |-> "1:1"],
                             before |-> context,
                             result |-> done.result]
    /\ lowerings' = lowerings + 1
    /\ UNCHANGED <<build_vars, cli_vars>>

\* The next expression of the body is lowered; an error ends the lowering.
LowerExpression ==
    /\ lowerings < MaxStatements
    /\ lowered.result.ok
    /\ \E expression \in Expressions :
          \E done \in { into_llvm(expression, context) } :
              /\ context' = done.context
              /\ lowered' = [expression |-> expression,
                             before |-> context,
                             result |-> done.result]
    /\ lowerings' = lowerings + 1
    /\ UNCHANGED <<build_vars, cli_vars>>

NextYul ==
    \/ LowerDeclaration
    \/ LowerExpression

SpecYul == InitYul /\ [][NextYul]_vars

(***************************************************************************)
(* A run of the solx executable, as the command line tests observe it      *)
(***************************************************************************)

\* The command lines run: the JSON modes take Solidity input and no --bin.
ArgumentSets ==
    { a \in [mode : {"cli", "combined_json", "standard_json"},
             language : {"solidity", "yul", "llvm_ir"},
             asm : BOOLEAN, bin : BOOLEAN, base_path : BOOLEAN,
             input_valid : BOOLEAN] :
        a.mode # "cli" => (a.language = "solidity" /\ ~a.bin) }

\* The message for output requested outside of JSON in a JSON mode.
OutsideOfJson(mode) ==
    IF mode = "combined_json"
    THEN "Cannot output data outside of JSON in combined JSON mode."
    ELSE "Cannot output data outside of JSON in standard JSON mode."

\* Arguments::validate: the error messages of a command line
validate(a) ==
    (IF a.base_path /\ a.language # "solidity"
     THEN <<"base-path is only allowed in Solidity mode">> ELSE <<>>)
    \o (IF a.mode # "cli" /\ a.asm THEN <<OutsideOfJson(a.mode)>> ELSE <<>>)

\* The errors of the compilation of the input.
compile(a) ==
    IF a.input_valid THEN <<>> ELSE <<"Expected identifier but got 'StringLiteral'">>

\* What the run writes when there is no error.
output(a) ==
    IF a.mode = "cli"
    THEN (IF a.asm THEN <<"EVM assembly:">> ELSE <<>>)
         \o (IF a.bin THEN <<"Binary:">> ELSE <<>>)
    ELSE <<"{", "}">>

\* A run that reports the errors of every mode on the standard error
report_on_stderr(mode, errs) ==
    [exit_code |-> <<1>>, stdout |-> <<>>, stderr |-> errs]

\* How the errors of a run surface: in the standard JSON mode inside the
\* document on the standard output of a run that succeeds, else on the
\* standard error of a run that fails.
report(mode, errs) ==
    IF mode = "standard_json"
    THEN [exit_code |-> <<0>>, stdout |-> <<"{", "errors">> \o errs \o <<"}">>, stderr |-> <<>>]
    ELSE [exit_code |-> <<1>>, stdout |-> <<>>, stderr |-> errs]

\* main: the arguments are validated, then the input is compiled
main(a) ==
    IF validate(a) # <<>> THEN report(a.mode, validate(a))
    ELSE IF compile(a) # <<>> THEN report(a.mode, compile(a))
    ELSE [exit_code |-> <<0>>, stdout |-> output(a), stderr |-> <<>>]

\* The executable is started with a command line.
InitCli ==
    /\ results = ResultsOf([k \in {} |-> TRUE])
    /\ messages = <<>>
    /\ pc = "live"
    /\ op = "new"
    /\ ret = <<>>
    /\ links = 0
    /\ symbols = [x \in {} |-> "a1"]
    /\ out = <<>>
    /\ combined_json = NoCombinedJson
    /\ standard_json = NoStandardJson
    /\ pre = [results |-> results, messages |-> messages,
              combined_json |-> NoCombinedJson, standard_json |-> NoStandardJson,
              args |-> <<>>]
    /\ YulIdle
    /\ arguments \in ArgumentSets
    /\ exit_code = <<>>
    /\ stdout = <<>>
    /\ stderr = <<>>

Main ==
    /\ exit_code = <<>>
    /\ \E run \in { main(arguments) } :
          /\ exit_code' = run.exit_code
          /\ stdout' = run.stdout
          /\ stderr' = run.stderr
    /\ UNCHANGED <<arguments, build_vars, yul_vars>>

NextCli == Main

SpecCli == InitCli /\ [][NextCli]_vars

(***************************************************************************)
(* Properties                                                              *)
(***************************************************************************)

IsWarning(m) == m.severity = "warning"

IsError(m) == m.severity = "error"

NotWarning(m) == m.severity # "warning"

\* The emission modes that check errors() before they emit.
FailFastModes == {"write_to_terminal", "write_to_directory", "write_to_combined_json"}

\* Some entry of the result map is an error, or some message has severity error.
HasErrors(map, msgs) ==
    \/ \E k \in DOMAIN map : ~map[k].ok
    \/ \E i \in 1..Len(msgs) : IsError(msgs[i])

\* C1: a call of write_to_terminal, write_to_directory or
\* write_to_combined_json first prints every warning of the message list, in
\* order, and leaves none in the list; if the build then has an error it
\* exits with a non-zero code, and what it printed after the warnings is the
\* errors and nothing else: no stanza, no directory, no file, and the
\* combined JSON document is the one it was given.
C1_WarnThenFailFast ==
    op \in FailFastModes =>
        LET warnings == SelectSeq(pre.messages, IsWarning)
            n == Len(warnings)
        IN  /\ Len(out) >= n
            /\ \A i \in 1..n : out[i] = Event("warning", <<>>, warnings[i].message)
            /\ \A i \in (n + 1)..Len(out) : out[i].kind # "warning"
            /\ \A i \in 1..Len(messages) : ~IsWarning(messages[i])
            /\ HasErrors(pre.results, pre.messages) =>
                  /\ pc = "exited"
                  /\ Len(out) > n
                  /\ out[Len(out)] = Event("exit", <<>>, <<"1">>)
                  /\ \A i \in (n + 1)..(Len(out) - 1) : out[i].kind = "error"
                  /\ combined_json = pre.combined_json

\* C1 witness: write_to_combined_json, given a document with entries, printed
\* a warning and then exited on a build that holds an artifact and an error.
C1_Witness ==
    /\ op = "write_to_combined_json"
    /\ pc = "exited"
    /\ Len(out) >= 3
    /\ out[1].kind = "warning"
    /\ DOMAIN pre.combined_json # {}
    /\ \E k \in DOMAIN results : results[k].ok

\* C2: errors() returns the terminal diagnostic of each contract that failed,
\* each once, followed by the messages of severity error in their order; it
\* is empty exactly when every entry is an artifact and no message has
\* severity error; the result map and the message list are as before the call.
C2_ErrorsExact ==
    op = "errors" =>
        LET failed == { k \in DOMAIN results : ~results[k].ok }
            n == Cardinality(failed)
        IN  /\ Len(ret) = n + Len(SelectSeq(messages, IsError))
            /\ \A k \in failed : \E i \in 1..n : ret[i] = results[k].error
            /\ SubSeq(ret, n + 1, Len(ret)) = SelectSeq(messages, IsError)
            /\ (ret = <<>>) <=> ~HasErrors(results, messages)
            /\ results = pre.results
            /\ messages = pre.messages

\* C2 witness: errors() returned a terminal diagnostic and a message on a
\* build that also holds an artifact and a warning.
C2_Witness ==
    /\ op = "errors"
    /\ Len(ret) >= 2
    /\ \E k \in DOMAIN results : results[k].ok
    /\ \E k \in DOMAIN results : ~results[k].ok
    /\ \E i \in 1..Len(messages) : IsWarning(messages[i])
    /\ \E i \in 1..Len(messages) : IsError(messages[i])

\* C3: a step that calls take_warnings() returns the warnings of the message
\* list in their order and leaves the other messages in theirs, and the
\* result map as it was; called right after take_warnings() it returns the
\* empty sequence and changes nothing.
C3_TakeWarnings ==
    [][op' = "take_warnings" =>
          /\ ret' = SelectSeq(messages, IsWarning)
          /\ messages' = SelectSeq(messages, NotWarning)
          /\ results' = results
          /\ op = "take_warnings" => (ret' = <<>> /\ messages' = messages)]_vars

\* C3 witness: take_warnings() returned a warning and left an error and an
\* info message in the list of a build that holds a contract.
C3_Witness ==
    /\ op = "take_warnings"
    /\ ret # <<>>
    /\ \E i \in 1..Len(messages) : IsError(messages[i])
    /\ \E i \in 1..Len(messages) : messages[i].severity = "info"
    /\ DOMAIN results # {}

\* The placeholders a byte sequence holds.
Mentions(build) == { x \in Placeholders : \E i \in 1..Len(build) : build[i] = x }

\* The contract was an unlinked artifact when link() was called.
WasUnlinked(k) == pre.results[k].ok /\ pre.results[k].contract.object_format = "ELF"

\* Every placeholder of the contract is in the symbol table of the link() call.
Resolvable(k) ==
    (Mentions(pre.results[k].contract.deploy_build)
        \cup Mentions(pre.results[k].contract.runtime_build)) \subseteq DOMAIN symbols

\* C4: after a link() that returned, a contract that was Unlinked and whose
\* placeholders the symbol table resolves is Final, and its deploy and
\* runtime bytes are non-empty and are not the bytes it had before.
C4_LinkResolves ==
    (op = "link" /\ pc = "live") =>
        \A k \in DOMAIN pre.results :
            (WasUnlinked(k) /\ Resolvable(k)) =>
                LET old == pre.results[k].contract
                    new == results[k].contract
                IN  /\ results[k].ok
                    /\ new.object_format = "Raw"
                    /\ new.deploy_build # <<>>
                    /\ new.runtime_build # <<>>
                    /\ new.deploy_build # old.deploy_build
                    /\ new.runtime_build # old.runtime_build

\* C4 witness: link() with a non-empty symbol table made Final a contract
\* that held a placeholder.
C4_Witness ==
    /\ op = "link"
    /\ pc = "live"
    /\ DOMAIN symbols # {}
    /\ \E k \in DOMAIN pre.results :
          /\ WasUnlinked(k)
          /\ Mentions(pre.results[k].contract.deploy_build) # {}
          /\ results[k].contract.object_format = "Raw"

\* C5: link() leaves every contract that was Final as it was: bytes, labels
\* and format.
C5_FinalUntouched ==
    op = "link" =>
        \A k \in DOMAIN pre.results :
            (pre.results[k].ok /\ pre.results[k].contract.object_format = "Raw") =>
                results[k] = pre.results[k]

\* C5 witness: a link() with a non-empty symbol table that linked one
\* contract of the build left a Final contract, whose bytes begin as an
\* object's do, as it was.
C5_Witness ==
    /\ op = "link"
    /\ pc = "live"
    /\ DOMAIN symbols # {}
    /\ results # pre.results
    /\ \E k \in DOMAIN pre.results :
          /\ pre.results[k].ok
          /\ pre.results[k].contract.object_format = "Raw"
          /\ pre.results[k].contract.deploy_build[1] = "ELF"

\* The contracts whose link failed in the last link() call.
FailedLinks == { k \in DOMAIN pre.results : WasUnlinked(k) /\ ~Resolvable(k) }

\* C6: after a link() that returned, each contract whose link failed is the
\* artifact it was (bytes and the format Unlinked), and the message list is
\* the one before the call followed by one message of severity error for
\* each such contract.
C6_LinkFailure ==
    (op = "link" /\ pc = "live") =>
        LET n == Len(pre.messages)
            appended == (n + 1)..Len(messages)
        IN  /\ \A k \in FailedLinks :
                  /\ results[k].ok
                  /\ results[k] = pre.results[k]
                  /\ results[k].contract.object_format = "ELF"
                  /\ Cardinality({ i \in appended :
                        messages[i].message =
                            <<"l", "d">> \o results[k].contract.deploy_identifier }) = 1
            /\ Len(messages) = n + Cardinality(FailedLinks)
            /\ SubSeq(messages, 1, n) = pre.messages
            /\ \A i \in appended : IsError(messages[i])

\* C6 witness: a link() failed for one contract and linked another.
C6_Witness ==
    /\ op = "link"
    /\ pc = "live"
    /\ FailedLinks # {}
    /\ Len(messages) = Len(pre.messages) + 1
    /\ results # pre.results

\* Some contract of the build had failed when the last operation was called.
HadFailedContract == \E k \in DOMAIN pre.results : ~pre.results[k].ok

\* C7 as stated: link() on a build with a failed contract skips that entry
\* and returns, having linked the Unlinked artifacts of the other contracts.
C7_Original ==
    (op = "link" /\ HadFailedContract) =>
        /\ pc = "live"
        /\ \A k \in DOMAIN pre.results :
              /\ ~pre.results[k].ok => results[k] = pre.results[k]
              /\ (WasUnlinked(k) /\ Resolvable(k)) =>
                    results[k].contract.object_format = "Raw"

\* C7: link() panics exactly when some entry of the result map is the error
\* of a failed contract, and that entry is not modified; when it returns,
\* every Unlinked artifact the symbol table resolves is Final.
C7_LinkPanicsOnError ==
    op = "link" =>
        /\ (pc = "panicked") <=> HadFailedContract
        /\ pc \in {"panicked", "live"}
        /\ \A k \in DOMAIN pre.results :
              /\ ~pre.results[k].ok => results[k] = pre.results[k]
              /\ (pc = "live" /\ WasUnlinked(k) /\ Resolvable(k)) =>
                    results[k].contract.object_format = "Raw"

\* C7 witness: link() panicked on a build that holds a failed contract and
\* an Unlinked artifact the symbol table resolves.
C7_Witness ==
    /\ op = "link"
    /\ pc = "panicked"
    /\ HadFailedContract
    /\ \E k \in DOMAIN pre.results : WasUnlinked(k) /\ Resolvable(k)

\* The contracts of the build that failed.
Failed == { k \in DOMAIN results : ~results[k].ok }

\* C8: write_to_standard_json returns normally on every build and prints no
\* error: each artifact's bytes are in the entry of its path and name, and
\* the document's errors are those it had followed by the terminal
\* diagnostic of each failed contract.
C8_StandardJsonNeverExits ==
    op = "write_to_standard_json" =>
        LET document == standard_json
            n == Len(pre.standard_json.errors)
        IN  /\ pc = "consumed"
            /\ \A i \in 1..Len(out) : out[i].kind \notin {"error", "exit"}
            /\ \A k \in DOMAIN results \ Failed :
                  LET contract == results[k].contract
                      path == contract.name.path
                      inner == IF contract.name.name = <<>> THEN path
                               ELSE contract.name.name[1]
                  IN  /\ path \in DOMAIN document.contracts
                      /\ inner \in DOMAIN document.contracts[path]
                      /\ document.contracts[path][inner].bin = contract.deploy_build
                      /\ document.contracts[path][inner].bin_runtime = contract.runtime_build
            /\ Len(document.errors) = n + Cardinality(Failed)
            /\ SubSeq(document.errors, 1, n) = pre.standard_json.errors
            /\ \A k \in Failed :
                  \E i \in (n + 1)..Len(document.errors) :
                      document.errors[i] = results[k].error

\* C8 witness: write_to_standard_json wrote an artifact and a terminal
\* diagnostic into a document that held an error, for a build with a message
\* of severity error.
C8_Witness ==
    /\ op = "write_to_standard_json"
    /\ pc = "consumed"
    /\ Failed # {}
    /\ DOMAIN results \ Failed # {}
    /\ pre.standard_json.errors # <<>>
    /\ \E i \in 1..Len(messages) : IsError(messages[i])

\* C9 as stated: after write_to_standard_json every message of severity
\* error the build held is in the document's errors.
C9_Original ==
    op = "write_to_standard_json" =>
        \A i \in 1..Len(pre.messages) :
            IsError(pre.messages[i]) =>
                \E j \in 1..Len(standard_json.errors) :
                    standard_json.errors[j] = pre.messages[i]

\* The contracts written by the last emission call, in order, each with the
\* key it was written to.
JsonEvents == SelectSeq(out, LAMBDA e : e.kind = "json")

\* The keys of the combined JSON document when the i-th contract is looked up.
KeysBefore(i) ==
    DOMAIN pre.combined_json \cup { JsonEvents[j].data : j \in 1..(i - 1) }

\* The keys whose normal form is a suffix of the normal form of the i-th contract.
Matches(i) ==
    { k \in KeysBefore(i) :
        /\ normalize_full_path(k).ok
        /\ EndsWith(normalize_full_path(JsonEvents[i].who).value,
                    normalize_full_path(k).value) }

\* The general rule of the combined JSON matching.
C10_Rule ==
    (op = "write_to_combined_json" /\ pc = "consumed") =>
        /\ Len(JsonEvents) = Cardinality(DOMAIN results)
        /\ { JsonEvents[i].who : i \in 1..Len(JsonEvents) } = DOMAIN results
        /\ \A i \in 1..Len(JsonEvents) :
              /\ i > 1 => LexLess(JsonEvents[i - 1].who, JsonEvents[i].who)
              /\ IF Matches(i) # {}
                 THEN /\ JsonEvents[i].data \in Matches(i)
                      /\ \A k \in Matches(i) \ {JsonEvents[i].data} :
                            LexLess(JsonEvents[i].data, k)
                 ELSE /\ JsonEvents[i].data = JsonEvents[i].who
                      /\ JsonEvents[i].data \notin KeysBefore(i)
        /\ DOMAIN combined_json = KeysBefore(Len(JsonEvents) + 1)
        /\ \A k \in DOMAIN combined_json :
              LET writers == { i \in 1..Len(JsonEvents) : JsonEvents[i].data = k }
              IN  IF writers = {}
                  THEN combined_json[k] = pre.combined_json[k]
                  ELSE LET last == CHOOSE i \in writers : \A j \in writers : j <= i
                       IN  combined_json[k].bin =
                               results[JsonEvents[last].who].contract.deploy_build

\* The document holds the key a:A alone and the build the contract c/a:A alone.
ShortKeyLongPath ==
    /\ op = "write_to_combined_json"
    /\ pc = "consumed"
    /\ DOMAIN pre.combined_json = { <<"a", ":", "A">> }
    /\ DOMAIN results = { <<"c", "/", "a", ":", "A">> }

Entries(contracts) ==
    UNION { { <<path, inner>> : inner \in DOMAIN contracts[path] } : path \in DOMAIN contracts }

\* The entry of each artifact of the build: its path, then its name or, when
\* it has none, its path again.
ArtifactEntries ==
    { <<results[k].contract.name.path,
        IF results[k].contract.name.name = <<>> THEN results[k].contract.name.path
        ELSE results[k].contract.name.name[1]>> : k \in DOMAIN results \ Failed }

\* C11: write_to_standard_json writes each artifact into the entry of its
\* path and then its name (its path again when it has no name); an entry the
\* document held is reused and keeps what else it held, an entry it did not
\* hold is created.  Two artifacts of one path are siblings under that path,
\* each with its own bytes, and the entries of no artifact are unchanged.
C11_StandardJsonKeys ==
    op = "write_to_standard_json" =>
        LET before == pre.standard_json.contracts
            after == standard_json.contracts
        IN  /\ DOMAIN after = DOMAIN before \cup { e[1] : e \in ArtifactEntries }
            /\ Entries(after) = Entries(before) \cup ArtifactEntries
            /\ \A e \in Entries(before) \ ArtifactEntries :
                  after[e[1]][e[2]] = before[e[1]][e[2]]
            /\ \A k \in DOMAIN results \ Failed :
                  LET contract == results[k].contract
                      path == contract.name.path
                      inner == IF contract.name.name = <<>> THEN path
                               ELSE contract.name.name[1]
                  IN  /\ after[path][inner].bin = contract.deploy_build
                      /\ after[path][inner].bin_runtime = contract.runtime_build
                      /\ after[path][inner].abi =
                            IF <<path, inner>> \in Entries(before)
                            THEN before[path][inner].abi ELSE <<>>
            /\ \A k1, k2 \in DOMAIN results \ Failed :
                  (/\ k1 # k2
                   /\ results[k1].contract.name.path = results[k2].contract.name.path)
                      => /\ results[k1].contract.name.name # results[k2].contract.name.name
                         /\ Cardinality(DOMAIN after[results[k1].contract.name.path]) >= 2

\* C11 witness: the artifacts a:A and a:B were written into a document that
\* held the entries A and C of the path a: A was reused, B was created
\* beside it and C is as it was.
C11_Witness ==
    /\ op = "write_to_standard_json"
    /\ {<<"a", ":", "A">>, <<"a", ":", "B">>} \subseteq DOMAIN results \ Failed
    /\ DOMAIN pre.standard_json.contracts = { <<"a">> }
    /\ DOMAIN pre.standard_json.contracts[<<"a">>] = { <<"A">>, <<"C">> }
    /\ DOMAIN standard_json.contracts[<<"a">>] = { <<"A">>, <<"B">>, <<"C">> }
    /\ standard_json.contracts[<<"a">>][<<"A">>].bin # standard_json.contracts[<<"a">>][<<"B">>].bin

\* What the last emission call printed and wrote after the warnings.
Body == SelectSeq(out, LAMBDA e : e.kind # "warning")

\* C12: write_to_terminal on a build without errors returns; asked for no
\* section it prints the notice that no output was requested and no stanza;
\* asked for some it prints one stanza per contract, each once, in ascending
\* order of the full paths, and nothing else.
C12_TerminalStanzas ==
    (op = "write_to_terminal" /\ ~HasErrors(pre.results, pre.messages)) =>
        /\ pc = "consumed"
        /\ IF pre.args = <<>>
           THEN Body = <<[kind |-> "notice", who |-> <<>>, data |-> <<>>]>>
           ELSE /\ Len(Body) = Cardinality(DOMAIN results)
                /\ { Body[i].who : i \in 1..Len(Body) } = DOMAIN results
                /\ \A i \in 1..Len(Body) :
                      /\ Body[i].kind = "stanza"
                      /\ Body[i].data = pre.args
                      /\ i > 1 => LexLess(Body[i - 1].who, Body[i].who)

\* C12 witness: write_to_terminal printed the stanzas of three contracts.
C12_Witness ==
    /\ op = "write_to_terminal"
    /\ pc = "consumed"
    /\ pre.args # <<>>
    /\ Len(Body) = 3
    /\ Body[1].kind = "stanza"

\* An entry of the result map holds one artifact and no error, or one
\* terminal error and no artifact.
OneOfBoth(result) ==
    \/ result.ok /\ result.contract # NoContract /\ result.error = NoError
    \/ ~result.ok /\ result.contract = NoContract /\ result.error # NoError

\* C13: a build as constructed, and after each link(), errors() and
\* take_warnings(), has the keys it had before the call, each key holds one
\* artifact or one terminal error, and no key went from the one to the other.
C13_KeysStable ==
    /\ \A k \in DOMAIN results : OneOfBoth(results[k])
    /\ op \in {"link", "errors", "take_warnings"} =>
          /\ DOMAIN results = DOMAIN pre.results
          /\ \A k \in DOMAIN results : results[k].ok = pre.results[k].ok

\* C13 witness: a link() returned having linked one contract and failed to
\* link another.
C13_Witness ==
    /\ op = "link"
    /\ pc = "live"
    /\ FailedLinks # {}
    /\ \E k \in DOMAIN results : WasUnlinked(k) /\ results[k].contract.object_format = "Raw"

\* The message list the last operation found holds the error of a failed link.
LinkHadFailed ==
    \E i \in 1..Len(pre.messages) :
        /\ IsError(pre.messages[i])
        /\ Len(pre.messages[i].message) >= 2
        /\ SubSeq(pre.messages[i].message, 1, 2) = <<"l", "d">>

\* The events that emit something of an artifact or report success.
ArtifactEvents == {"stanza", "notice", "mkdir", "file", "success", "json"}

\* C15: write_to_terminal, write_to_directory and write_to_combined_json,
\* called after a link() in which the link of some contract failed, exit
\* without emitting anything of any artifact: no stanza, no directory, no
\* file, and the combined JSON document is as it was given.
C15_FailedLinkEmitsNothing ==
    (op \in FailFastModes /\ LinkHadFailed) =>
        /\ pc = "exited"
        /\ \A i \in 1..Len(out) : out[i].kind \notin ArtifactEvents
        /\ combined_json = pre.combined_json

\* C15 witness: write_to_directory exited on a build that, after a failed
\* link, holds an Unlinked artifact and a Final one.
C15_Witness ==
    /\ op = "write_to_directory"
    /\ pc = "exited"
    /\ LinkHadFailed
    /\ \E k \in DOMAIN results : results[k].ok /\ results[k].contract.object_format = "ELF"
    /\ \E k \in DOMAIN results : results[k].ok /\ results[k].contract.object_format = "Raw"

\* The contracts whose full path comes before the given one.
KeysBelow(full_path) == { k \in DOMAIN results : LexLess(k, full_path) }

\* C16: write_to_directory on a build without errors creates the directory
\* first, writes the contracts in ascending order of the full paths and
\* prints the success notice last; when the directory cannot be created
\* nothing is written, when the write of a contract fails the contracts
\* before it are written and stay written, no later one is, and in both
\* cases the call fails without the notice.
C16_DirectoryOrder ==
    (op = "write_to_directory" /\ ~HasErrors(pre.results, pre.messages)) =>
        LET fails == pre.args.failing \in DOMAIN results
            written == IF fails THEN KeysBelow(pre.args.failing) ELSE DOMAIN results
            n == Cardinality(written)
        IN  IF ~pre.args.create_dir_all_ok
            THEN Body = <<>> /\ pc = "failed"
            ELSE /\ Len(Body) = 1 + n + (IF fails THEN 0 ELSE 1)
                 /\ Body[1].kind = "mkdir"
                 /\ \A i \in 2..(n + 1) :
                       /\ Body[i].kind = "file"
                       /\ Body[i].who \in written
                       /\ i > 2 => LexLess(Body[i - 1].who, Body[i].who)
                 /\ { Body[i].who : i \in 2..(n + 1) } = written
                 /\ IF fails THEN pc = "failed"
                    ELSE pc = "consumed" /\ Body[Len(Body)].kind = "success"

\* C16 witness: write_to_directory failed at the second of three contracts.
C16_Witness ==
    /\ op = "write_to_directory"
    /\ pc = "failed"
    /\ Cardinality(DOMAIN results) = 3
    /\ Len(Body) = 2
    /\ Body[2].kind = "file"

\* The first colon of a key, 0 when it has none.
FirstColon(key) ==
    IF \E i \in 1..Len(key) : key[i] = ":"
    THEN CHOOSE i \in 1..Len(key) : key[i] = ":" /\ \A j \in 1..(i - 1) : key[j] # ":"
    ELSE 0

\* C18 as stated: the normal form of a key is that of the part before its
\* first colon, a colon and all that follows the first colon; a key without
\* a colon has none.
C18_Original ==
    op = "write_to_combined_json" =>
        \A key \in DOMAIN pre.combined_json :
            LET colon == FirstColon(key)
                path_part == SubSeq(key, 1, colon - 1)
                name_part == SubSeq(key, colon + 1, Len(key))
            IN  IF colon = 0 THEN ~normalize_full_path(key).ok
                ELSE normalize(path_part).ok =>
                        /\ normalize_full_path(key).ok
                        /\ normalize_full_path(key).value =
                              normalize(path_part).value \o <<":">> \o name_part

\* What linking alone makes of an entry of the result map.
LinkedAlone(result) ==
    LET contract == result.contract
        linked == evm_link(
            [identifier |-> contract.deploy_identifier, build |-> contract.deploy_build],
            [identifier |-> contract.runtime_identifier, build |-> contract.runtime_build],
            symbols)
    IN  IF result.ok /\ contract.object_format = "ELF" /\ linked.ok
        THEN [result EXCEPT !.contract.deploy_build = linked.deploy,
                            !.contract.runtime_build = linked.runtime,
                            !.contract.object_format = linked.object_format]
        ELSE result

\* C19: after a link() that returned, each entry of the result map is what
\* linking that entry alone with the symbol table makes of it, whatever the
\* other entries are and whether their links failed, and the messages
\* appended are, in some order, one per failed link.
C19_LinkIndependent ==
    (op = "link" /\ pc = "live") =>
        /\ \A k \in DOMAIN pre.results : results[k] = LinkedAlone(pre.results[k])
        /\ { messages[i] : i \in (Len(pre.messages) + 1)..Len(messages) }
              = { [severity |-> "error",
                   message |-> <<"l", "d">> \o pre.results[k].contract.deploy_identifier]
                  : k \in FailedLinks }
        /\ Len(messages) = Len(pre.messages) + Cardinality(FailedLinks)

\* C19 witness: a link() failed for a contract and linked one that comes
\* after it in the result map.
C19_Witness ==
    /\ op = "link"
    /\ pc = "live"
    /\ \E k1 \in FailedLinks :
          \E k2 \in DOMAIN results :
              /\ LexLess(k1, k2)
              /\ WasUnlinked(k2)
              /\ results[k2].contract.object_format = "Raw"

\* C20 as stated: when write_to_combined_json returns, no two contracts of
\* the build were written into the same entry of the document.
C20_Original ==
    (op = "write_to_combined_json" /\ pc = "consumed") =>
        \A i, j \in 1..Len(JsonEvents) :
            i # j => JsonEvents[i].data # JsonEvents[j].data

\* The loads of a name in a piece of IR.
Loads(ir, name) ==
    { i \in 1..Len(ir) : ir[i].instruction = "load" /\ ir[i].name = name }

\* C17: lowering an identifier whose name the current function has bound to
\* a stack slot appends one load from that slot to the IR and returns the
\* loaded value, never an absent one; lowering an identifier with no binding
\* fails with the undeclared-variable error made of its location and name,
\* and the IR is as it was.  A name declared by `let` earlier in the body
\* resolves.
C17_IdentifierLowering ==
    lowered.expression.kind = "identifier" =>
        LET name == lowered.expression.inner
            before == lowered.before
        IN  /\ IF name \in DOMAIN before.stack
               THEN /\ lowered.result.ok
                    /\ Len(lowered.result.value) = 1
                    /\ lowered.result.value[1] =
                          [instruction |-> "load", pointer |-> before.stack[name],
                           name |-> name]
                    /\ Len(context.ir) = Len(before.ir) + 1
                    /\ SubSeq(context.ir, 1, Len(before.ir)) = before.ir
                    /\ context.ir[Len(context.ir)] = lowered.result.value[1]
               ELSE /\ ~lowered.result.ok
                    /\ lowered.result.value = <<>>
                    /\ lowered.result.error =
                          <<lowered.expression.location, "Undeclared variable", name>>
                    /\ context.ir = before.ir
            /\ context.stack = before.stack
            /\ (\E i \in 1..Len(before.ir) :
                    before.ir[i].instruction = "alloca" /\ before.ir[i].name = name)
                  => lowered.result.ok

\* C17 witness: after `let x := 5` and `let x := 5` again, the identifier x
\* was lowered to a load from the second slot.
C17_Witness ==
    /\ lowered.expression.kind = "identifier"
    /\ lowered.result.ok
    /\ Len(context.ir) = 5
    /\ context.ir[5].instruction = "load"
    /\ context.ir[5].pointer = 2

====
